---------------------------- MODULE Spec2Model ----------------------------
(***************************************************************************)
(* The device tracker of pennylane/device_tracker.py: class DevTracker,    *)
(* an accumulator of per-metric totals and histories with a scoped         *)
(* (enter/exit) tracking session.                                          *)
(*                                                                         *)
(* Python values are tagged records, so that None, numbers and strings     *)
(* can be compared with each other.  A dict that keeps insertion order     *)
(* and is iterated (totals) is a sequence of entries; a dict that is only  *)
(* indexed (history) is a function on the keys it holds.                   *)
(***************************************************************************)
EXTENDS Integers, Sequences, FiniteSets, TLC

\* ------------------------------------------------------------------ bounds

\* The most values update is supplied, over all metrics, between two resets.
MaxSupplied == 2

\* The most scopes open on the tracker at once.
MaxDepth == 2

\* ------------------------------------------------------------------ values

None == [tag |-> "none", n |-> 0, s |-> ""]

Num(i) == [tag |-> "int", n |-> i, s |-> ""]

Str(t) == [tag |-> "str", n |-> 0, s |-> t]

\* The metric names and the values the callers of update supply.
Keys == {"a", "b"}

Values == {None, Num(1), Num(2), Str("s")}

\* The keyword arguments of one call, **current: an insertion-ordered
\* mapping, i.e. a sequence of entries with pairwise distinct keys.
Kwargs ==
    {<<>>}
    \cup {<<[key |-> k, value |-> v]>> : k \in Keys, v \in Values}
    \cup {<<[key |-> k1, value |-> v1], [key |-> k2, value |-> v2]>> :
             <<k1, k2>> \in {kk \in Keys \X Keys : kk[1] # kk[2]},
             <<v1, v2>> \in Values \X Values}

\* ------------------------------------------------------------------- state

VARIABLES
    reset_on_enter,   \* self.reset_on_enter
    tracking,         \* self.tracking
    totals,           \* self.totals, a defaultdict(int), in insertion order
    history,          \* self.history, a defaultdict(list)
    stdout,           \* what the last call printed, one entry per print()
    call,             \* the last call: its name, arguments, outcome and the
                      \* methods of the tracker that ran in it, in order
    supplied,         \* per metric, the values passed to update since the
                      \* last reset (history of the calls, not of the code)
    depth,            \* scopes entered and not yet exited
    exited            \* some scope has been exited

\* The state of the settings in which the tracker is used: several trackers
\* constructed on devices.  It is idle where one tracker is driven directly.
VARIABLES
    objs,             \* the trackers constructed so far, by identity 1, 2, ...
    attached,         \* per device, dev.tracker: the identity of a tracker
    now,              \* the clock: what time.time() returns
    time_last,        \* self._time_last of a TimingTracker
    watch,            \* what an observer with a stop watch notes of the calls
    th                \* per thread calling the tracker, where it is in its call

\* The state of one tracker driven directly.
single == <<reset_on_enter, tracking, totals, history, supplied, depth, exited>>

\* The state of a TimingTracker beyond that of a DevTracker.
timing == <<now, time_last, watch>>

\* The state of the other settings.
rest == <<objs, attached, timing, th>>

vars == <<single, stdout, call, rest>>

\* ----------------------------------------------------------- dict helpers

\* defaultdict(list)() and defaultdict(int)() with no entries.
EmptyDict == [k \in {} |-> <<>>]

EmptyTotals == <<>>

\* key in self.totals
HasTotal(tot, key) == \E i \in 1..Len(tot) : tot[i].key = key

\* self.totals[key] for a key that is present
TotalOf(tot, key) == tot[CHOOSE i \in 1..Len(tot) : tot[i].key = key].total

\* self.totals[key] of a defaultdict(int): a missing key is inserted with
\* int() = 0, at the end of the insertion order.
Missing(tot, key) ==
    IF HasTotal(tot, key) THEN tot ELSE Append(tot, [key |-> key, total |-> 0])

\* self.totals[key] = x for a key that is present: the entry keeps its place.
SetTotal(tot, key, x) ==
    [i \in 1..Len(tot) |-> IF tot[i].key = key THEN [key |-> key, total |-> x] ELSE tot[i]]

\* An append that stores the value twice.
HistoryAppendTwice(hist, key, value) ==
    [k \in (DOMAIN hist) \cup {key} |->
        IF k = key
        THEN (IF key \in DOMAIN hist THEN hist[key] ELSE <<>>) \o <<value, value>>
        ELSE hist[k]]

\* self.history[key].append(value); a missing key is inserted with list().
HistoryAppend(hist, key, value) ==
    [k \in (DOMAIN hist) \cup {key} |->
        IF k = key
        THEN Append(IF key \in DOMAIN hist THEN hist[key] ELSE <<>>, value)
        ELSE hist[k]]


\* -------------------------------------------------------------- operations

\* The attributes an instance holds: __init__ assigns reset_on_enter and
\* tracking, reset assigns totals and history; no method assigns another.
Attributes == {"reset_on_enter", "totals", "history", "tracking"}

AttributeError == "AttributeError"

\* tracker.latest: reading an attribute the instance does not hold raises
\* AttributeError.
latest == IF "latest" \in Attributes THEN EmptyDict ELSE AttributeError

\* value is something int.__iadd__ accepts: 0 + "s" raises TypeError.
Summable(value) == value.tag = "int"

\* self.totals[key] += value: the subscript is read first (a missing key
\* enters totals as 0), then the sum is computed, then it is stored.
AddTotal(tot, key, value) ==
    SetTotal(Missing(tot, key), key, TotalOf(Missing(tot, key), key) + value.n)

\* DevTracker.update: the loop over current.items(), from totals tot and
\* history hist.  A value that cannot be added raises TypeError out of the
\* loop: the entries before it are applied, its own history entry and the
\* totals entry its read created stay, the entries after it are not reached.
RECURSIVE update(_, _, _)
update(tot, hist, current) ==
    IF current = <<>>
    THEN [totals |-> tot, history |-> hist, raised |-> FALSE]
    ELSE LET key   == Head(current).key
             value == Head(current).value
             hist1 == HistoryAppend(hist, key, value)
         IN  IF value = None
             THEN update(tot, hist1, Tail(current))
             ELSE IF Summable(value)
                  THEN update(AddTotal(tot, key, value), hist1, Tail(current))
                  ELSE [totals |-> Missing(tot, key), history |-> hist1, raised |-> TRUE]

\* DevTracker.reset: two fresh defaultdicts.
reset == [totals |-> EmptyTotals, history |-> EmptyDict]

\* record with the items printed by print(f"{key} = {value}"), the tab
\* forgotten: each item ends its own line.
recordLines(tot) ==
    <<"Totals: ">>
    \o [i \in 1..Len(tot) |-> tot[i].key \o " = " \o ToString(tot[i].total) \o "\n"]
    \o <<"\n">>

\* DevTracker.record: what its print calls write, one entry per call:
\* print("Totals: ", end=""), then print(f"{key} = {value}", end="\t") for
\* each item of totals in insertion order, then print().
record(tot) ==
    <<"Totals: ">>
    \o [i \in 1..Len(tot) |-> tot[i].key \o " = " \o ToString(tot[i].total) \o "\t"]
    \o <<"\n">>

\* ------------------------------------------------------------ bookkeeping

NoSupply == [k \in Keys |-> <<>>]

\* The values a call of update passes, added to what was passed before.
RECURSIVE Supply(_, _)
Supply(sup, current) ==
    IF current = <<>> THEN sup
    ELSE Supply([sup EXCEPT ![Head(current).key] = Append(@, Head(current).value)],
                Tail(current))

\* The record of a call: op its name, current and exc its arguments, result
\* what it returned or raised, ran the tracker's methods that ran in it, and
\* had whether a reset or enter found recorded values.
Called(op, current, exc, result, ran, had) ==
    [op |-> op, current |-> current, exc |-> exc, result |-> result, ran |-> ran,
     had |-> had]

\* The number of values supplied since the last reset.
RECURSIVE Count(_, _)
Count(sup, keys) ==
    IF keys = {} THEN 0
    ELSE LET k == CHOOSE x \in keys : TRUE
         IN  Len(sup[k]) + Count(sup, keys \ {k})

\* A call of update stays within the bound on the values supplied.
WithinBound(current) == Count(supplied, Keys) + Len(current) <= MaxSupplied

\* ----------------------------------------------------------------- actions

\* The tracker is no TimingTracker and reads no clock.
TimingIdle ==
    /\ now = 0
    /\ time_last = 0
    /\ watch = <<>>

\* The tracker is called from one thread.
ThreadsIdle == th = <<>>

\* No device and no second tracker exists.
RestIdle ==
    /\ objs = <<>>
    /\ attached = <<>>
    /\ TimingIdle
    /\ ThreadsIdle

\* DevTracker(reset_on_enter=...): the state __init__ leaves.
Init ==
    /\ RestIdle
    /\ reset_on_enter \in BOOLEAN
    /\ totals = reset.totals
    /\ history = reset.history
    /\ tracking = FALSE
    /\ stdout = <<>>
    /\ call = Called("init", <<>>, FALSE, "None", <<"reset">>, FALSE)
    /\ supplied = NoSupply
    /\ depth = 0
    /\ exited = FALSE

\* tracker.update(**current)
Update(current) ==
    /\ WithinBound(current)
    /\ LET r == update(totals, history, current)
       IN  /\ totals' = r.totals
           /\ history' = r.history
           /\ call' = Called("update", current, FALSE,
                             IF r.raised THEN "TypeError" ELSE "None", <<"update">>,
                             FALSE)
    /\ stdout' = <<>>
    /\ supplied' = Supply(supplied, current)
    /\ UNCHANGED <<reset_on_enter, tracking, depth, exited>>
    /\ UNCHANGED rest

\* tracker.update_and_record(**current): update, then record unless update
\* raised.
UpdateAndRecord(current) ==
    /\ WithinBound(current)
    /\ LET r == update(totals, history, current)
       IN  /\ totals' = r.totals
           /\ history' = r.history
           /\ stdout' = IF r.raised THEN <<>> ELSE record(r.totals)
           /\ call' = Called("update_and_record", current, FALSE,
                             IF r.raised THEN "TypeError" ELSE "None",
                             IF r.raised THEN <<"update">> ELSE <<"update", "record">>,
                             FALSE)
    /\ supplied' = Supply(supplied, current)
    /\ UNCHANGED <<reset_on_enter, tracking, depth, exited>>
    /\ UNCHANGED rest

\* tracker.record()
Record ==
    /\ stdout' = record(totals)
    /\ call' = Called("record", <<>>, FALSE, "None", <<"record">>, FALSE)
    /\ UNCHANGED <<reset_on_enter, tracking, totals, history, supplied, depth, exited>>
    /\ UNCHANGED rest

\* tracker.reset()
Reset ==
    /\ totals' = reset.totals
    /\ history' = reset.history
    /\ stdout' = <<>>
    /\ call' = Called("reset", <<>>, FALSE, "None", <<"reset">>, history # EmptyDict)
    /\ supplied' = NoSupply
    /\ UNCHANGED <<reset_on_enter, tracking, depth, exited>>
    /\ UNCHANGED rest

\* __enter__ with the test of reset_on_enter forgotten: it never resets.
EnterWithoutReset ==
    /\ depth < MaxDepth
    /\ tracking' = TRUE
    /\ stdout' = <<>>
    /\ call' = Called("enter", <<>>, FALSE, "self", <<>>, history # EmptyDict)
    /\ depth' = depth + 1
    /\ UNCHANGED <<reset_on_enter, totals, history, supplied, exited>>
    /\ UNCHANGED rest

\* __enter__ with reset_on_enter ignored the other way: it always resets.
EnterAlwaysResets ==
    /\ depth < MaxDepth
    /\ totals' = reset.totals
    /\ history' = reset.history
    /\ supplied' = NoSupply
    /\ tracking' = TRUE
    /\ stdout' = <<>>
    /\ call' = Called("enter", <<>>, FALSE, "self", <<"reset">>, history # EmptyDict)
    /\ depth' = depth + 1
    /\ UNCHANGED <<reset_on_enter, exited>>
    /\ UNCHANGED rest

\* tracker.__enter__(), by a with statement or directly: a scope opens.
Enter ==
    /\ depth < MaxDepth
    /\ totals' = IF reset_on_enter THEN reset.totals ELSE totals
    /\ history' = IF reset_on_enter THEN reset.history ELSE history
    /\ supplied' = IF reset_on_enter THEN NoSupply ELSE supplied
    /\ tracking' = TRUE
    /\ stdout' = <<>>
    /\ call' = Called("enter", <<>>, FALSE, "self",
                      IF reset_on_enter THEN <<"reset">> ELSE <<>>,
                      history # EmptyDict)
    /\ depth' = depth + 1
    /\ UNCHANGED <<reset_on_enter, exited>>
    /\ UNCHANGED rest

\* __exit__ that clears tracking only when the scope ended without an error.
ExitUnlessError(exc) ==
    /\ depth > 0
    /\ tracking' = (exc /\ tracking)
    /\ stdout' = <<>>
    /\ call' = Called("exit", <<>>, exc, "None", <<>>, FALSE)
    /\ depth' = depth - 1
    /\ exited' = TRUE
    /\ UNCHANGED <<reset_on_enter, totals, history, supplied>>
    /\ UNCHANGED rest

\* tracker.__exit__(exc_type, exc_value, exc_traceback): a scope closes,
\* normally (exc = FALSE) or because an error left its body (exc = TRUE).
\* The method returns None, so the error propagates.
Exit(exc) ==
    /\ depth > 0
    /\ tracking' = FALSE
    /\ stdout' = <<>>
    /\ call' = Called("exit", <<>>, exc, "None", <<>>, FALSE)
    /\ depth' = depth - 1
    /\ exited' = TRUE
    /\ UNCHANGED <<reset_on_enter, totals, history, supplied>>
    /\ UNCHANGED rest

Next ==
    \/ \E current \in Kwargs : Update(current)
    \/ \E current \in Kwargs : UpdateAndRecord(current)
    \/ Record
    \/ Reset
    \/ Enter
    \/ \E exc \in BOOLEAN : Exit(exc)

Spec == Init /\ [][Next]_vars

\* ------------------------------------------------- vocabulary of the claims

\* history[k] as a reader sees it: a defaultdict gives [] for a missing key.
HistoryOf(k) == IF k \in DOMAIN history THEN history[k] ELSE <<>>

\* The sum of the numbers among vals; None and text add nothing.
RECURSIVE SumOf(_)
SumOf(vals) ==
    IF vals = <<>> THEN 0
    ELSE (IF Head(vals).tag = "int" THEN Head(vals).n ELSE 0) + SumOf(Tail(vals))

\* Some value among vals is a number.
HasNumber(vals) == \E i \in 1..Len(vals) : vals[i].tag = "int"

\* The last call was update or update_and_record.
Updating(c) == c.op \in {"update", "update_and_record"}

\* The last call of update passed value v for metric k.
Passed(c, k, v) ==
    /\ Updating(c)
    /\ \E i \in 1..Len(c.current) : c.current[i] = [key |-> k, value |-> v]

\* Only numbers and None have been supplied since the last reset.
OnlyNumbers == \A k \in Keys : \A i \in 1..Len(supplied[k]) : supplied[k][i].tag # "str"

\* totals[k] as a reader sees it: a defaultdict(int) gives 0 for a missing key.
TotalRead(tot, k) == IF HasTotal(tot, k) THEN TotalOf(tot, k) ELSE 0

\* totals[k] is the sum of what was supplied for k and history[k] is what
\* was supplied for k, in order.
Accumulated(k) ==
    /\ HistoryOf(k) = supplied[k]
    /\ TotalRead(totals, k) = SumOf(supplied[k])

\* -------------------------------------------------------------------- C1

\* C1: for every sequence of update calls and every metric k, totals[k] is
\* the sum of the non-None values supplied for k since the last reset and
\* history[k] is the list of the values supplied for k since then, in call
\* order.  The code breaks this when a call passes a value it cannot add:
\* the call raises in the middle of its loop.
C1_TotalsAndHistoryFollowUpdates == \A k \in Keys : Accumulated(k)

\* C1 on the calls that pass numbers and None only: there the code keeps it.
C1_OnNumbers == OnlyNumbers => \A k \in Keys : Accumulated(k)

\* -------------------------------------------------------------------- C2

\* C2: an update that supplies None for a metric k appends None to
\* history[k] and leaves totals[k] as it was: unchanged if k had a total,
\* absent if every value supplied for k so far was None.
C2_NoneRecordedNotSummed ==
    [][\A k \in Keys :
         Passed(call', k, None) =>
            /\ HistoryOf(k)' = Append(HistoryOf(k), None)
            /\ HasTotal(totals', k) <=> HasTotal(totals, k)
            /\ HasTotal(totals, k) => TotalOf(totals', k) = TotalOf(totals, k)
            /\ (\A i \in 1..Len(supplied'[k]) : supplied'[k][i] = None)
                  => ~HasTotal(totals', k)]_vars

\* C2 on the calls that pass numbers and None only.
C2_OnNumbers ==
    [][\A k \in Keys :
         Passed(call', k, None) /\ OnlyNumbers' =>
            /\ HistoryOf(k)' = Append(HistoryOf(k), None)
            /\ HasTotal(totals', k) <=> HasTotal(totals, k)
            /\ HasTotal(totals, k) => TotalOf(totals', k) = TotalOf(totals, k)
            /\ (\A i \in 1..Len(supplied'[k]) : supplied'[k][i] = None)
                  => ~HasTotal(totals', k)]_vars

\* -------------------------------------------------------------------- C3

\* C3: an update that supplies a value that is neither None nor a number
\* for a metric k raises nothing, appends the value to history[k] and
\* keeps it out of totals, so that k is not in totals when no number was
\* ever supplied for it.
C3_TextRecordedNotSummed ==
    \A k \in Keys :
        Passed(call, k, Str("s")) =>
            /\ call.result = "None"
            /\ HistoryOf(k) # <<>>
            /\ HistoryOf(k)[Len(HistoryOf(k))] = Str("s")
            /\ ~HasNumber(supplied[k]) => ~HasTotal(totals, k)

\* -------------------------------------------------------------------- C4

\* C4: the tracker keeps a mapping latest such that, after any updates
\* since the last reset, latest[k] is the value supplied last for k, None
\* included.
C4_LatestIsLastSupplied ==
    \A k \in Keys :
        supplied[k] # <<>> =>
            /\ latest # AttributeError
            /\ k \in DOMAIN latest
            /\ latest[k] = supplied[k][Len(supplied[k])]

\* -------------------------------------------------------------------- C5

\* C5: from any reachable state, reset() leaves totals, history and latest
\* empty and changes neither the tracking flag nor reset_on_enter.  The
\* tracker has no latest to leave empty.
C5_ResetEmptiesAll ==
    [][call'.op = "reset" =>
          /\ totals' = EmptyTotals
          /\ history' = EmptyDict
          /\ latest # AttributeError
          /\ latest = EmptyDict
          /\ tracking' = tracking
          /\ reset_on_enter' = reset_on_enter]_vars

\* C5 without latest: reset() leaves totals and history empty and changes
\* neither the tracking flag nor reset_on_enter.
C5_OnTotalsAndHistory ==
    [][call'.op = "reset" =>
          /\ totals' = EmptyTotals
          /\ history' = EmptyDict
          /\ tracking' = tracking
          /\ reset_on_enter' = reset_on_enter]_vars

\* -------------------------------------------------------------------- C6

\* C6: entering a session on a tracker that resets on entry discards the
\* totals and history accumulated before, sets tracking and returns the
\* tracker itself; however often it is entered, the state is empty after
\* each entry.
C6_EnterResets ==
    call.op = "enter" /\ reset_on_enter =>
        /\ totals = EmptyTotals
        /\ history = EmptyDict
        /\ tracking = TRUE
        /\ call.result = "self"

\* A tracker that resets on entry has been entered again, after an earlier
\* session ended, while it held recorded values.
C6_Witness ==
    /\ call.op = "enter"
    /\ reset_on_enter
    /\ exited
    /\ call.had
    /\ history = EmptyDict

\* -------------------------------------------------------------------- C7

\* C7: once a session has been entered, tracking is false after its scope
\* ends, on every exit path: exit clears tracking whether the scope ended
\* normally or by an error, and tracking is never true when no scope is
\* open.
C7_ExitStopsTracking ==
    /\ call.op = "exit" => tracking = FALSE
    /\ depth = 0 => tracking = FALSE

\* The only open scope has been left by an error.
C7_Witness ==
    /\ call.op = "exit"
    /\ call.exc
    /\ depth = 0
    /\ tracking = FALSE

\* -------------------------------------------------------------------- C8

\* C8: with reset_on_enter = false, leaving and entering a session change
\* neither totals nor history, so what one session accumulated is still
\* there in the next, which adds to it.
C8_SessionsKeepTotals ==
    [][~reset_on_enter /\ call'.op \in {"enter", "exit"} =>
          /\ totals' = totals
          /\ history' = history]_vars

\* A tracker that does not reset on entry has been entered again after an
\* earlier session ended, and still holds the totals it held before.
C8_Witness ==
    /\ ~reset_on_enter
    /\ call.op = "enter"
    /\ exited
    /\ call.had
    /\ totals # EmptyTotals
    /\ history # EmptyDict

\* -------------------------------------------------------------------- C9

\* What record prints for totals tot, spelled out entry by entry.
Digit == <<"0", "1", "2", "3", "4", "5", "6", "7", "8", "9">>

RECURSIVE Decimal(_)
Decimal(i) ==
    IF i < 10 THEN Digit[i + 1] ELSE Decimal(i \div 10) \o Digit[(i % 10) + 1]

Reports(out, tot) ==
    /\ Len(out) = Len(tot) + 2
    /\ out[1] = "Totals: "
    /\ \A i \in 1..Len(tot) :
          out[i + 1] = tot[i].key \o " = " \o Decimal(tot[i].total) \o "\t"
    /\ out[Len(out)] = "\n"

\* The value of entry e is the last one of the history of its metric.
Recorded(e) ==
    /\ HistoryOf(e.key) # <<>>
    /\ HistoryOf(e.key)[Len(HistoryOf(e.key))] = e.value

\* C9: update_and_record(metrics) runs update(metrics) once and then
\* record() once, in that order, so its report shows the state with the
\* metrics of this call in it.  When update raises, record does not run.
C9_UpdateThenRecord ==
    call.op = "update_and_record" =>
        /\ call.ran = <<"update", "record">>
        /\ Reports(stdout, totals)
        /\ \A i \in 1..Len(call.current) : Recorded(call.current[i])

\* C9 on the calls that pass numbers and None only.
C9_OnNumbers ==
    call.op = "update_and_record"
    /\ (\A i \in 1..Len(call.current) : call.current[i].value.tag # "str") =>
        /\ call.ran = <<"update", "record">>
        /\ Reports(stdout, totals)
        /\ \A i \in 1..Len(call.current) : Recorded(call.current[i])

\* ------------------------------------------------------------------- C10

\* The text of what was printed.
RECURSIVE Text(_)
Text(out) == IF out = <<>> THEN "" ELSE Head(out) \o Text(Tail(out))

\* C10: record() prints one line: "Totals: ", then for each metric of
\* totals, in the order the metrics entered totals, "name = value" and a
\* tab, then a newline; with nothing recorded it prints "Totals: " and the
\* newline; and it changes neither totals nor history.
C10_RecordReportsTotals ==
    [][call'.op = "record" =>
          /\ Reports(stdout', totals')
          /\ totals = EmptyTotals => stdout' = <<"Totals: ", "\n">>
          /\ totals' = totals
          /\ history' = history]_vars

\* record() has printed two metrics, the one that entered totals first
\* being the later one in the alphabet.
C10_Witness ==
    /\ call.op = "record"
    /\ Text(stdout) = "Totals: b = 2\ta = 1\t\n"

\* ------------------------------------------------------ trackers on devices

\* The most trackers constructed.
MaxTrackers == 2

\* The most units of work a tracker records.
MaxRuns == 2

\* The devices: one that supports tracking and the TempDevice of the tests,
\* whose capabilities() is empty.
Devs == {"default.qubit", "temp"}

\* dev=None, the default of __init__.
NoDev == "None"

\* dev.capabilities().get("supports_tracker", False)
Supports == [d \in Devs |-> d = "default.qubit"]

\* dev.tracker of every device before a tracker is constructed on it: 0, the
\* identity of no tracker.
Unattached == [d \in Devs |-> 0]

\* The attributes __init__ leaves on a new tracker.
Tracker(roe) ==
    [reset_on_enter |-> roe, tracking |-> FALSE,
     totals |-> reset.totals, history |-> reset.history]

\* The end of __init__ with the assignment made only while the device has no
\* tracker yet.
AttachOnce(att, dev, id) ==
    IF dev # NoDev /\ att[dev] = 0 THEN [att EXCEPT ![dev] = id] ELSE att

\* The end of __init__: if dev is not None: dev.tracker = self.
Attach(att, dev, id) ==
    IF dev # NoDev THEN [att EXCEPT ![dev] = id] ELSE att

\* update_and_record with record() called a second time.
update_and_record_twice(tot, hist, current) ==
    LET u == update(tot, hist, current)
    IN  [totals |-> u.totals, history |-> u.history, raised |-> u.raised,
         stdout |-> IF u.raised THEN <<>> ELSE record(u.totals) \o record(u.totals),
         ran |-> IF u.raised THEN <<"update">> ELSE <<"update", "record", "record">>]

\* DevTracker.update_and_record from totals tot and history hist:
\* self.update(**current), then self.record() unless update raised.
update_and_record(tot, hist, current) ==
    LET u == update(tot, hist, current)
    IN  [totals |-> u.totals, history |-> u.history, raised |-> u.raised,
         stdout |-> IF u.raised THEN <<>> ELSE record(u.totals),
         ran |-> IF u.raised THEN <<"update">> ELSE <<"update", "record">>]

\* The record of a call in this setting: dev the device and id the tracker
\* it concerns, cb whether a callback was passed, was the tracker of dev
\* before the call, tracked the tracking flag before the call.
DevCalled(op, dev, id, cb, result, ran, was, tracked) ==
    [op |-> op, dev |-> dev, id |-> id, cb |-> cb, result |-> result, ran |-> ran,
     was |-> was, tracked |-> tracked]

\* history[key] of tracker t.
HistoryIn(t, key) == IF key \in DOMAIN t.history THEN t.history[key] ELSE <<>>

\* Devices exist and no tracker has been constructed.
DevInit ==
    /\ objs = <<>>
    /\ attached = Unattached
    /\ stdout = <<>>
    /\ call = DevCalled("none", NoDev, 0, FALSE, "None", <<>>, 0, FALSE)
    /\ TimingIdle
    /\ ThreadsIdle
    /\ reset_on_enter = TRUE
    /\ tracking = FALSE
    /\ totals = reset.totals
    /\ history = reset.history
    /\ supplied = NoSupply
    /\ depth = 0
    /\ exited = FALSE

\* DevTracker(dev, reset_on_enter=roe), or the same with callback=f when cb.
\* __init__ has no parameter callback, so that call raises TypeError before
\* the body runs.  The body makes no test of the device's capabilities.
Construct(dev, roe, cb) ==
    /\ Len(objs) < MaxTrackers
    /\ IF cb
       THEN /\ UNCHANGED <<objs, attached>>
            /\ call' = DevCalled("init", dev, 0, cb, "TypeError", <<>>,
                                 IF dev = NoDev THEN 0 ELSE attached[dev], FALSE)
       ELSE /\ objs' = Append(objs, Tracker(roe))
            /\ attached' = Attach(attached, dev, Len(objs) + 1)
            /\ call' = DevCalled("init", dev, Len(objs) + 1, cb, "None", <<"reset">>,
                                 IF dev = NoDev THEN 0 ELSE attached[dev], FALSE)
    /\ stdout' = <<>>
    /\ UNCHANGED <<single, timing, th>>

\* with tracker: ... on tracker id, which is in no session.
TrackerEnter(id) ==
    /\ ~objs[id].tracking
    /\ objs' = [objs EXCEPT ![id] =
                   [reset_on_enter |-> @.reset_on_enter, tracking |-> TRUE,
                    totals |-> IF @.reset_on_enter THEN reset.totals ELSE @.totals,
                    history |-> IF @.reset_on_enter THEN reset.history ELSE @.history]]
    /\ call' = DevCalled("enter", NoDev, id, FALSE, "self",
                         IF objs[id].reset_on_enter THEN <<"reset">> ELSE <<>>, 0, FALSE)
    /\ stdout' = <<>>
    /\ UNCHANGED <<attached, single, timing, th>>

\* The end of the with block of tracker id.
TrackerExit(id) ==
    /\ objs[id].tracking
    /\ objs' = [objs EXCEPT ![id].tracking = FALSE]
    /\ call' = DevCalled("exit", NoDev, id, FALSE, "None", <<>>, 0, TRUE)
    /\ stdout' = <<>>
    /\ UNCHANGED <<attached, single, timing, th>>

\* One unit of work of device dev, run with shots: the device calls
\* update_and_record(executions=1, shots=shots) on its tracker if the
\* tracker's tracking flag is set, and leaves the tracker alone if not.
Execute(dev, shots) ==
    /\ attached[dev] # 0
    /\ LET id == attached[dev]
           t  == objs[id]
           r  == update_and_record(t.totals, t.history,
                                   <<[key |-> "executions", value |-> Num(1)],
                                     [key |-> "shots", value |-> shots]>>)
       IN  /\ Len(HistoryIn(t, "executions")) < MaxRuns
           /\ IF t.tracking
              THEN /\ objs' = [objs EXCEPT ![id] =
                                  [reset_on_enter |-> t.reset_on_enter,
                                   tracking |-> t.tracking,
                                   totals |-> r.totals, history |-> r.history]]
                   /\ stdout' = r.stdout
                   /\ call' = DevCalled("execute", dev, id, FALSE,
                                        IF r.raised THEN "TypeError" ELSE "None",
                                        r.ran, id, TRUE)
              ELSE /\ objs' = objs
                   /\ stdout' = <<>>
                   /\ call' = DevCalled("execute", dev, id, FALSE, "None", <<>>, id, FALSE)
    /\ UNCHANGED <<attached, single, timing, th>>

DevNext ==
    \/ \E dev \in Devs \cup {NoDev}, roe \in BOOLEAN, cb \in BOOLEAN : Construct(dev, roe, cb)
    \/ \E id \in 1..Len(objs) : TrackerEnter(id)
    \/ \E id \in 1..Len(objs) : TrackerExit(id)
    \/ \E dev \in Devs, shots \in {None, Num(10)} : Execute(dev, shots)

SpecDev == DevInit /\ [][DevNext]_vars

\* ------------------------------------------------------------------- C11

\* C11: a tracker can be constructed with a callback (and record() then
\* calls it once with totals, history and latest).  __init__ takes no
\* callback: the construction raises TypeError and there is no tracker
\* whose record() could call anything.
C11_CallbackAccepted ==
    call.op = "init" /\ call.cb => call.result = "None" /\ call.id = Len(objs)

\* ------------------------------------------------------------------- C12

\* C12: constructing a tracker on a device whose capabilities lack
\* supports_tracker fails with an error that names the device, and a
\* tracker is installed on a device only if the device supports tracking.
C12_UnsupportedDeviceRejected ==
    /\ call.op = "init" /\ call.dev \in Devs /\ ~call.cb =>
          Supports[call.dev] \/ (/\ call.result = "DeviceNotSupportedError"
                                 /\ attached[call.dev] = call.was)
    /\ \A d \in Devs : attached[d] # 0 => Supports[d]

\* ------------------------------------------------------------------- C13

\* C13: after a tracker is constructed on a supporting device, dev.tracker
\* is that tracker: the device holds one reference, to the tracker
\* constructed on it last; constructing a tracker without a device changes
\* no device's reference.
C13_DeviceRefersToNewestTracker ==
    [][call'.op = "init" /\ call'.result = "None" =>
          /\ Len(objs') = Len(objs) + 1
          /\ call'.dev \in Devs /\ Supports[call'.dev] =>
                \A d \in Devs :
                    attached'[d] = IF d = call'.dev THEN Len(objs') ELSE attached[d]
          /\ call'.dev = NoDev => attached' = attached]_vars

\* A second tracker has been constructed on the supporting device, which
\* referred to the first one and now refers to the second.
C13_Witness ==
    /\ call.op = "init"
    /\ call.dev = "default.qubit"
    /\ call.was = 1
    /\ Len(objs) = 2
    /\ attached["default.qubit"] = 2

\* ------------------------------------------------------------------- C14

\* C14: a unit of work of a device whose tracker's tracking flag is false
\* calls neither update nor record and leaves totals and history as they
\* were; a unit of work while the flag is true calls update once and record
\* once.
C14_WorkRecordedOnlyWhileTracking ==
    [][call'.op = "execute" =>
          IF objs[call'.id].tracking
          THEN /\ call'.ran = <<"update", "record">>
               /\ Len(HistoryIn(objs'[call'.id], "executions"))
                     = Len(HistoryIn(objs[call'.id], "executions")) + 1
               /\ Reports(stdout', objs'[call'.id].totals)
          ELSE /\ call'.ran = <<>>
               /\ stdout' = <<>>
               /\ objs' = objs]_vars

\* A device has worked after the session of its tracker ended: the tracker
\* holds what the session recorded, and the work was not recorded.
C14_Witness ==
    /\ call.op = "execute"
    /\ call.ran = <<>>
    /\ ~objs[call.id].tracking
    /\ Len(HistoryIn(objs[call.id], "executions")) = 1

\* ------------------------------------------------------- the timing tracker

\* The latest time the clock shows.
MaxClock == 2

\* The most updates of a TimingTracker between two resets.
MaxTimed == 2

\* The keyword arguments of the calls of TimingTracker.update: a metric a,
\* a number or text, and a time of the caller's, before or after it.
TimedKwargs ==
    {<<>>, <<[key |-> "time", value |-> Num(5)]>>}
    \cup {<<[key |-> "a", value |-> v]>> : v \in {Num(1), Str("s")}}
    \cup {<<[key |-> "a", value |-> Num(1)], [key |-> "time", value |-> Num(5)]>>,
          <<[key |-> "time", value |-> Num(5)], [key |-> "a", value |-> Str("s")]>>}

\* current["time"] = elapsed: an entry the caller passed keeps its place and
\* gets the new value, a new entry goes to the end.
timed(current, elapsed) ==
    IF \E i \in 1..Len(current) : current[i].key = "time"
    THEN [i \in 1..Len(current) |->
             IF current[i].key = "time"
             THEN [key |-> "time", value |-> Num(elapsed)]
             ELSE current[i]]
    ELSE Append(current, [key |-> "time", value |-> Num(elapsed)])

\* What the observer notes: mark, the time of the last update or reset;
\* entered_at, the time of the last enter; first, whether no update was
\* called since that enter; due, the time between each update since the
\* last reset and the update or reset before it; text, whether an update
\* since the last reset passed a text.
Watch(mark, entered_at, first, due, text) ==
    [mark |-> mark, entered_at |-> entered_at, first |-> first, due |-> due,
     text |-> text]

\* Some value of current is a text.
HasText(current) == \E i \in 1..Len(current) : current[i].value.tag = "str"

\* TimingTracker(reset_on_enter=...) at time 0: DevTracker.__init__ calls
\* self.reset(), which is TimingTracker.reset.
TimingInit ==
    /\ reset_on_enter \in BOOLEAN
    /\ totals = reset.totals
    /\ history = reset.history
    /\ tracking = FALSE
    /\ stdout = <<>>
    /\ call = Called("init", <<>>, FALSE, "None", <<"reset">>, FALSE)
    /\ supplied = NoSupply
    /\ depth = 0
    /\ exited = FALSE
    /\ objs = <<>>
    /\ attached = <<>>
    /\ now = 0
    /\ time_last = 0
    /\ watch = Watch(0, 0, FALSE, <<>>, FALSE)
    /\ ThreadsIdle

\* Time passes between two calls.
Tick ==
    /\ now < MaxClock
    /\ now' = now + 1
    /\ call' = Called("tick", <<>>, FALSE, "None", <<>>, FALSE)
    /\ stdout' = <<>>
    /\ UNCHANGED <<single, objs, attached, time_last, watch, th>>

\* TimingTracker.update(**current)
TimedUpdate(current) ==
    /\ Len(watch.due) < MaxTimed
    /\ LET r == update(totals, history, timed(current, now - time_last))
       IN  /\ totals' = r.totals
           /\ history' = r.history
           /\ call' = Called("update", current, FALSE,
                             IF r.raised THEN "TypeError" ELSE "None", <<"update">>,
                             FALSE)
    /\ time_last' = now
    /\ stdout' = <<>>
    /\ watch' = Watch(now, watch.entered_at, FALSE, Append(watch.due, now - watch.mark),
                      watch.text \/ HasText(current))
    /\ UNCHANGED <<reset_on_enter, tracking, supplied, depth, exited, objs, attached, now, th>>

\* tracker.update_and_record(**current) on a TimingTracker: self.update is
\* TimingTracker.update.
TimedUpdateAndRecord(current) ==
    /\ Len(watch.due) < MaxTimed
    /\ LET r == update_and_record(totals, history, timed(current, now - time_last))
       IN  /\ totals' = r.totals
           /\ history' = r.history
           /\ stdout' = r.stdout
           /\ call' = Called("update_and_record", current, FALSE,
                             IF r.raised THEN "TypeError" ELSE "None", r.ran, FALSE)
    /\ time_last' = now
    /\ watch' = Watch(now, watch.entered_at, FALSE, Append(watch.due, now - watch.mark),
                      watch.text \/ HasText(current))
    /\ UNCHANGED <<reset_on_enter, tracking, supplied, depth, exited, objs, attached, now, th>>

\* TimingTracker.reset(): super().reset(), then self._time_last = time.time().
TimedReset ==
    /\ totals' = reset.totals
    /\ history' = reset.history
    /\ time_last' = now
    /\ stdout' = <<>>
    /\ call' = Called("reset", <<>>, FALSE, "None", <<"reset">>, history # EmptyDict)
    /\ watch' = Watch(now, watch.entered_at, watch.first, <<>>, FALSE)
    /\ UNCHANGED <<reset_on_enter, tracking, supplied, depth, exited, objs, attached, now, th>>

\* tracker.__enter__() on a TimingTracker: self.reset is TimingTracker.reset.
TimedEnter ==
    /\ depth < MaxDepth
    /\ totals' = IF reset_on_enter THEN reset.totals ELSE totals
    /\ history' = IF reset_on_enter THEN reset.history ELSE history
    /\ time_last' = IF reset_on_enter THEN now ELSE time_last
    /\ tracking' = TRUE
    /\ stdout' = <<>>
    /\ call' = Called("enter", <<>>, FALSE, "self",
                      IF reset_on_enter THEN <<"reset">> ELSE <<>>,
                      history # EmptyDict)
    /\ depth' = depth + 1
    /\ watch' = IF reset_on_enter
                THEN Watch(now, now, TRUE, <<>>, FALSE)
                ELSE Watch(watch.mark, now, TRUE, watch.due, watch.text)
    /\ UNCHANGED <<reset_on_enter, supplied, exited, objs, attached, now, th>>

\* __exit__ and record are those of DevTracker.
TimingNext ==
    \/ Tick
    \/ \E current \in TimedKwargs : TimedUpdate(current)
    \/ \E current \in TimedKwargs : TimedUpdateAndRecord(current)
    \/ TimedReset
    \/ TimedEnter
    \/ \E exc \in BOOLEAN : Exit(exc)
    \/ Record

SpecTiming == TimingInit /\ [][TimingNext]_vars

\* ------------------------------------------------------------------- C15

\* The values history["time"] holds.
TimeHistory == HistoryOf("time")

\* C15: the first update after entering a session records as time the time
\* elapsed since the session was entered, whether the tracker resets on
\* entry or not.  Stated of the calls that pass no text.
C15_FirstTimeSinceEntry ==
    [][Updating(call') /\ watch.first /\ depth > 0 /\ ~HasText(call'.current) =>
          /\ TimeHistory' # <<>>
          /\ TimeHistory'[Len(TimeHistory')] = Num(now - watch.entered_at)]_vars

\* The part of C15 the code keeps: it holds of a tracker that resets on
\* entry, in a session in which reset() has not been called.
C15_OnResettingTracker ==
    [][(/\ Updating(call') /\ watch.first /\ depth > 0 /\ ~HasText(call'.current)
        /\ reset_on_enter /\ watch.mark = watch.entered_at) =>
          /\ TimeHistory' # <<>>
          /\ TimeHistory'[Len(TimeHistory')] = Num(now - watch.entered_at)]_vars

\* ------------------------------------------------------------------- C18

\* C18: under an integer clock that never runs back, every update of a
\* timing tracker appends to history["time"] the time since the update
\* before it or, if there was none since the last reset, since that reset;
\* a time the caller passes is replaced by it; and it is never negative.
C18_TimeIsSinceLastUpdateOrReset ==
    /\ TimeHistory = [i \in 1..Len(watch.due) |-> Num(watch.due[i])]
    /\ \A i \in 1..Len(TimeHistory) : TimeHistory[i].tag = "int" /\ TimeHistory[i].n >= 0

\* C18 while no update since the last reset has passed a text.
C18_OnNumbers ==
    ~watch.text =>
        /\ TimeHistory = [i \in 1..Len(watch.due) |-> Num(watch.due[i])]
        /\ \A i \in 1..Len(TimeHistory) : TimeHistory[i].tag = "int" /\ TimeHistory[i].n >= 0

\* ------------------------------------------------------------------- C19

\* C19: in every reachable state tracking is true exactly if some scope
\* entered on the tracker has not exited yet, also when the tracker is
\* entered again inside a scope.
C19_TrackingIffInSession == tracking <=> depth > 0

\* The direction of C19 the code keeps: tracking is true only inside a
\* session.
C19_TrackingOnlyInSession == tracking => depth > 0

\* ------------------------------------------------------------------- C20

\* The number of values history holds for k.
HistoryLen(k) == Len(HistoryOf(k))

Resetting(c) == c.op = "reset" \/ (c.op = "enter" /\ "reset" \in {c.ran[i] : i \in 1..Len(c.ran)})

Threads == {"t1", "t2"}

\* The calls a thread makes.
ThreadOps == {"update", "update_and_record", "record", "reset", "enter", "exit"}

\* The keyword arguments of the updates of the threads: one metric, or two.
ThreadKwargs ==
    {<<[key |-> "a", value |-> Num(1)]>>,
     <<[key |-> "a", value |-> Num(1)], [key |-> "b", value |-> Num(2)]>>}

\* A thread that has not called yet.  pc is the statement it executes next,
\* i the entry of current, or the item of totals, it is at, tmp the total
\* it has read, size the size of totals noted by the iterator of record,
\* stale whether the object it holds was replaced by a reset, snap that
\* object's contents, seen the items its record has read, result what its
\* call returned or raised.
NotStarted ==
    [pc |-> "idle", op |-> "none", current |-> <<>>, i |-> 0, tmp |-> 0, size |-> 0,
     stale |-> FALSE, snap |-> <<>>, seen |-> <<>>, result |-> ""]

\* The thread's call returns or raises.
Done(r, result) == [r EXCEPT !.pc = "done", !.result = result]

\* The loop of update is exhausted: update returns, and update_and_record
\* goes on to self.record().
AfterUpdate(r) ==
    IF r.op = "update_and_record" THEN [r EXCEPT !.pc = "header"] ELSE Done(r, "None")

\* The body of the loop of update is through for entry i.
AfterItem(r) ==
    IF r.i < Len(r.current) THEN [r EXCEPT !.i = @ + 1, !.pc = "list"] ELSE AfterUpdate(r)

\* The first statement of a call.
Start(op, current) ==
    LET r == [NotStarted EXCEPT !.op = op, !.current = current, !.i = 1]
    IN  CASE op \in {"update", "update_and_record"} ->
                 IF current = <<>> THEN AfterUpdate(r) ELSE [r EXCEPT !.pc = "list"]
          [] op = "record" -> [r EXCEPT !.pc = "header"]
          [] op = "reset" -> [r EXCEPT !.pc = "reset_totals"]
          [] op = "enter" ->
                 [r EXCEPT !.pc = IF reset_on_enter THEN "reset_totals" ELSE "set_tracking"]
          [] op = "exit" -> [r EXCEPT !.pc = "clear_tracking"]

\* What no step of a thread changes.
apart == <<reset_on_enter, supplied, depth, exited, objs, attached, timing>>

\* DevTracker() with tracking off, and two threads about to call it.
ThreadsInit ==
    /\ reset_on_enter \in BOOLEAN
    /\ totals = reset.totals
    /\ history = reset.history
    /\ tracking = FALSE
    /\ stdout = <<>>
    /\ call = Called("init", <<>>, FALSE, "None", <<"reset">>, FALSE)
    /\ supplied = NoSupply
    /\ depth = 0
    /\ exited = FALSE
    /\ objs = <<>>
    /\ attached = <<>>
    /\ TimingIdle
    /\ th = [t \in Threads |-> NotStarted]

\* Thread t calls a method of the tracker.
ThreadCall(t, op, current) ==
    /\ th[t].pc = "idle"
    /\ th' = [th EXCEPT ![t] = Start(op, current)]
    /\ call' = Called(op, current, FALSE, "", <<>>, FALSE)
    /\ UNCHANGED <<totals, history, tracking, stdout, apart>>

\* self.history[key]: the list is read; a missing key enters history with
\* an empty list.
GetList(t) ==
    /\ th[t].pc = "list"
    /\ LET key == th[t].current[th[t].i].key
       IN  history' = IF key \in DOMAIN history THEN history
                      ELSE [k \in (DOMAIN history) \cup {key} |->
                               IF k = key THEN <<>> ELSE history[k]]
    /\ th' = [th EXCEPT ![t].pc = "append", ![t].stale = FALSE]
    /\ UNCHANGED <<totals, tracking, stdout, call, apart>>

\* .append(value) on the list read, then the test value is not None.
AppendValue(t) ==
    /\ th[t].pc = "append"
    /\ LET e == th[t].current[th[t].i]
       IN  /\ history' = IF th[t].stale THEN history
                         ELSE HistoryAppend(history, e.key, e.value)
           /\ th' = [th EXCEPT ![t] = IF e.value = None THEN AfterItem(@)
                                      ELSE [@ EXCEPT !.pc = "read"]]
    /\ UNCHANGED <<totals, tracking, stdout, call, apart>>

\* self.totals[key] += value, its first half: the subscript is read, a
\* missing key enters totals as 0, and the sum is computed, which raises
\* TypeError for a text.
ReadTotal(t) ==
    /\ th[t].pc = "read"
    /\ LET e == th[t].current[th[t].i]
       IN  /\ totals' = Missing(totals, e.key)
           /\ th' = [th EXCEPT ![t] =
                        IF Summable(e.value)
                        THEN [@ EXCEPT !.pc = "store", !.stale = FALSE,
                                       !.tmp = TotalOf(Missing(totals, e.key), e.key) + e.value.n]
                        ELSE Done(@, "TypeError")]
    /\ UNCHANGED <<history, tracking, stdout, call, apart>>

\* self.totals[key] += value, its second half: the sum is stored in the
\* dict that was read.
StoreTotal(t) ==
    /\ th[t].pc = "store"
    /\ totals' = IF th[t].stale THEN totals
                 ELSE SetTotal(totals, th[t].current[th[t].i].key, th[t].tmp)
    /\ th' = [th EXCEPT ![t] = AfterItem(@)]
    /\ UNCHANGED <<history, tracking, stdout, call, apart>>

\* record: print("Totals: ", end="")
PrintHeader(t) ==
    /\ th[t].pc = "header"
    /\ stdout' = Append(stdout, "Totals: ")
    /\ th' = [th EXCEPT ![t].pc = "items"]
    /\ UNCHANGED <<totals, history, tracking, call, apart>>

\* record: self.totals.items() and its iterator, which notes the size of
\* the dict.
Items(t) ==
    /\ th[t].pc = "items"
    /\ th' = [th EXCEPT ![t].pc = "next", ![t].i = 0, ![t].size = Len(totals),
                        ![t].stale = FALSE, ![t].snap = <<>>]
    /\ UNCHANGED <<totals, history, tracking, stdout, call, apart>>

\* record: the iterator's next item and its print.  A dict whose size has
\* changed since the iterator was made raises RuntimeError.
NextItem(t) ==
    /\ th[t].pc = "next"
    /\ LET d == IF th[t].stale THEN th[t].snap ELSE totals
       IN  IF Len(d) # th[t].size
           THEN /\ th' = [th EXCEPT ![t] = Done(@, "RuntimeError")]
                /\ UNCHANGED stdout
           ELSE IF th[t].i < th[t].size
           THEN LET item == d[th[t].i + 1]
                IN  /\ stdout' = Append(stdout,
                                        item.key \o " = " \o ToString(item.total) \o "\t")
                    /\ th' = [th EXCEPT ![t].i = @ + 1, ![t].seen = Append(@, item)]
           ELSE /\ th' = [th EXCEPT ![t].pc = "newline"]
                /\ UNCHANGED stdout
    /\ UNCHANGED <<totals, history, tracking, call, apart>>

\* record: print()
Newline(t) ==
    /\ th[t].pc = "newline"
    /\ stdout' = Append(stdout, "\n")
    /\ th' = [th EXCEPT ![t] = Done(@, "None")]
    /\ UNCHANGED <<totals, history, tracking, call, apart>>

\* reset: self.totals = defaultdict(int).  A thread between the two halves
\* of its += and a thread iterating over the items keep the old dict.
ResetTotals(t) ==
    /\ th[t].pc = "reset_totals"
    /\ totals' = reset.totals
    /\ th' = [u \in Threads |->
                 IF u = t THEN [th[u] EXCEPT !.pc = "reset_history"]
                 ELSE IF th[u].pc = "store" THEN [th[u] EXCEPT !.stale = TRUE]
                 ELSE IF th[u].pc = "next" /\ ~th[u].stale
                      THEN [th[u] EXCEPT !.stale = TRUE, !.snap = totals]
                 ELSE th[u]]
    /\ UNCHANGED <<history, tracking, stdout, call, apart>>

\* reset: self.history = defaultdict(list).  A thread about to append keeps
\* the old list.
ResetHistory(t) ==
    /\ th[t].pc = "reset_history"
    /\ history' = reset.history
    /\ th' = [u \in Threads |->
                 IF u = t
                 THEN IF th[u].op = "enter" THEN [th[u] EXCEPT !.pc = "set_tracking"]
                      ELSE Done(th[u], "None")
                 ELSE IF th[u].pc = "append" THEN [th[u] EXCEPT !.stale = TRUE]
                 ELSE th[u]]
    /\ UNCHANGED <<totals, tracking, stdout, call, apart>>

\* __enter__: self.tracking = True; return self
SetTracking(t) ==
    /\ th[t].pc = "set_tracking"
    /\ tracking' = TRUE
    /\ th' = [th EXCEPT ![t] = Done(@, "self")]
    /\ UNCHANGED <<totals, history, stdout, call, apart>>

\* __exit__: self.tracking = False
ClearTracking(t) ==
    /\ th[t].pc = "clear_tracking"
    /\ tracking' = FALSE
    /\ th' = [th EXCEPT ![t] = Done(@, "None")]
    /\ UNCHANGED <<totals, history, stdout, call, apart>>

\* The interpreter runs one thread at a time and may switch between any
\* two of these steps: the class holds no lock.
ThreadsNext ==
    \E t \in Threads :
        \/ \E op \in ThreadOps \ {"update", "update_and_record"} : ThreadCall(t, op, <<>>)
        \/ \E op \in {"update", "update_and_record"}, current \in ThreadKwargs :
               ThreadCall(t, op, current)
        \/ GetList(t)
        \/ AppendValue(t)
        \/ ReadTotal(t)
        \/ StoreTotal(t)
        \/ PrintHeader(t)
        \/ Items(t)
        \/ NextItem(t)
        \/ Newline(t)
        \/ ResetTotals(t)
        \/ ResetHistory(t)
        \/ SetTracking(t)
        \/ ClearTracking(t)

SpecThreads == ThreadsInit /\ [][ThreadsNext]_vars

\* ------------------------------------------------------------------- C16

UpdateOps == {"update", "update_and_record"}

\* Thread u's call is an update that passes a number for k.
Supplies(u, k) ==
    /\ th[u].op \in UpdateOps
    /\ \E i \in 1..Len(th[u].current) :
           th[u].current[i].key = k /\ th[u].current[i].value.tag = "int"

\* The number thread u's update adds to totals[k].
Amount(u, k) ==
    IF Supplies(u, k)
    THEN th[u].current[CHOOSE i \in 1..Len(th[u].current) : th[u].current[i].key = k].value.n
    ELSE 0

\* What the updates of the threads in S add to totals[k].
RECURSIVE Gave(_, _)
Gave(S, k) ==
    IF S = {} THEN 0
    ELSE LET u == CHOOSE x \in S : TRUE
         IN  Amount(u, k) + Gave(S \ {u}, k)

\* Thread t's record has returned a whole report.
Reported(t) ==
    /\ th[t].pc = "done"
    /\ th[t].op \in {"record", "update_and_record"}
    /\ th[t].result = "None"

\* The report of thread t shows the totals that the updates of the threads
\* in S, all of them applied whole and no other, leave.
ShownAs(t, S) ==
    \A k \in Keys :
        LET items == {i \in 1..Len(th[t].seen) : th[t].seen[i].key = k}
        IN  IF \E u \in S : Supplies(u, k)
            THEN /\ Cardinality(items) = 1
                 /\ \A i \in items : th[t].seen[i].total = Gave(S, k)
            ELSE items = {}

\* C16: no report shows a partially applied update of another thread:
\* where no thread resets, what a record reports is what its own thread's
\* update and some of the other threads' updates, each whole, add up to.
C16_ReportsShowWholeUpdates ==
    \A t \in Threads :
        (Reported(t) /\ \A u \in Threads : th[u].op \notin {"reset", "enter"}) =>
            \E S \in SUBSET {u \in Threads \ {t} : th[u].op \in UpdateOps} :
                ShownAs(t, S \cup (IF th[t].op = "update_and_record" THEN {t} ELSE {}))

\* ------------------------------------------------------------------- C17

\* One call, run alone from totals and history s.
Alone(r, s) ==
    CASE r.op \in UpdateOps ->
             LET x == update(s.totals, s.history, r.current)
             IN  [totals |-> x.totals, history |-> x.history]
      [] r.op = "reset" \/ (r.op = "enter" /\ reset_on_enter) ->
             [totals |-> reset.totals, history |-> reset.history]
      [] OTHER -> s

\* The calls of the threads run one after the other in the given order.
RECURSIVE Serial(_, _)
Serial(order, s) ==
    IF order = <<>> THEN s
    ELSE Serial(Tail(order), Alone(th[Head(order)], s))

\* The orders in which the threads can take turns.
Orders ==
    {o \in [1..Cardinality(Threads) -> Threads] :
        \A i, j \in DOMAIN o : i # j => o[i] # o[j]}

\* A dict of totals without its insertion order.
AsMap(tot) == {tot[i] : i \in 1..Len(tot)}

\* C17: once all calls have returned, totals and history are those some
\* serial order of the calls leaves.
C17_CallsAreAtomic ==
    (\A t \in Threads : th[t].pc = "done") =>
        \E o \in Orders :
            LET s == Serial(o, [totals |-> reset.totals, history |-> reset.history])
            IN  /\ AsMap(totals) = AsMap(s.totals)
                /\ history = s.history

=============================================================================
